---- MODULE Spec2Model ----
(***************************************************************************)
(* Mono-alphabetic simple substitution ciphers (simplesubstitution).       *)
(*                                                                         *)
(* Characters are their code points; a string or a list of characters is a *)
(* sequence of code points.  A call that raises is a record whose `raised' *)
(* field names the exception class.                                        *)
(***************************************************************************)
EXTENDS Integers, Sequences, FiniteSets

VARIABLES pc, call, raised, plaintext_list, ciphertext_list, inverse_list,
          result, message, encrypted, decrypted

vars == <<pc, call, raised, plaintext_list, ciphertext_list, inverse_list,
          result, message, encrypted, decrypted>>

(***************************************************************************)
(* Bounds of the explored inputs.                                          *)
(***************************************************************************)
MaxLen == 3

MaxKeyLen == 2

MaxMsgLen == 2

MaxShift == 2

(***************************************************************************)
(* Generic helpers.                                                        *)
(***************************************************************************)
Range(s) == {s[i] : i \in 1..Len(s)}

SeqsUpTo(S, n) == UNION {[1..m -> S] : m \in 0..n}

Ok(v) == [raised |-> "none", value |-> v]

Raise(kind) == [raised |-> kind, value |-> <<>>]

(***************************************************************************)
(* Program constants.                                                      *)
(***************************************************************************)
ascii_lowercase == [i \in 1..26 |-> 96 + i]

ascii_uppercase == [i \in 1..26 |-> 64 + i]

ascii_letters == ascii_lowercase \o ascii_uppercase

PRINTABLE_ASCII_ALPHABET == <<9>> \o [i \in 1..95 |-> 31 + i]

\* An omitted (defaulted) alphabet argument.
None == <<0>>

\* str.lower() and str.upper() on ASCII text.
lower(key) == [i \in 1..Len(key) |-> IF key[i] \in 65..90 THEN key[i] + 32 ELSE key[i]]

upper(key) == [i \in 1..Len(key) |-> IF key[i] \in 97..122 THEN key[i] - 32 ELSE key[i]]

\* list.index(char): the 1-based position of the first occurrence, 0 where
\* Python raises ValueError.
index(list, char) ==
  LET found == {i \in 1..Len(list) : list[i] = char}
  IN IF found = {} THEN 0
     ELSE CHOOSE i \in found : \A j \in found : i <= j

\* list.pop(position): the list without the element at position.
pop(list, position) ==
  SubSeq(list, 1, position - 1) \o SubSeq(list, position + 1, Len(list))

(***************************************************************************)
(* Internal functions of Cipher.py.                                        *)
(***************************************************************************)
RECURSIVE KeywordLoop(_, _, _, _)
KeywordLoop(plaintext_list_, ciphertext_list_, key, i) ==
  IF i > Len(key)
  THEN Ok(ciphertext_list_ \o plaintext_list_)
  ELSE LET char == key[i]
           position == index(plaintext_list_, char)
       IN IF position # 0
          THEN KeywordLoop(pop(plaintext_list_, position),
                           Append(ciphertext_list_, plaintext_list_[position]),
                           key, i + 1)
          ELSE IF char \notin Range(ciphertext_list_)
               THEN Raise("ValueError")
               ELSE KeywordLoop(plaintext_list_, ciphertext_list_, key, i + 1)

\* The loop without the `char not in ciphertext_list' test: a repeated key
\* character raises.
RECURSIVE KeywordLoopStrict(_, _, _, _)
KeywordLoopStrict(plaintext_list_, ciphertext_list_, key, i) ==
  IF i > Len(key)
  THEN Ok(ciphertext_list_ \o plaintext_list_)
  ELSE LET char == key[i]
           position == index(plaintext_list_, char)
       IN IF position # 0
          THEN KeywordLoopStrict(pop(plaintext_list_, position),
                                 Append(ciphertext_list_, plaintext_list_[position]),
                                 key, i + 1)
          ELSE Raise("ValueError")

keyword_based_strict(plaintext_alphabet, key) ==
  KeywordLoopStrict(plaintext_alphabet, <<>>, key, 1)

_generate_keyword_based_ciphertext_alphabet(plaintext_alphabet, key) ==
  KeywordLoop(plaintext_alphabet, <<>>, key, 1)

\* The case split without lowering and raising the key.
case_handled_key_unchanged(plaintext_alphabet, key) ==
  IF plaintext_alphabet = ascii_letters
  THEN LET lower_half == _generate_keyword_based_ciphertext_alphabet(ascii_lowercase, key)
           upper_half == _generate_keyword_based_ciphertext_alphabet(ascii_uppercase, key)
       IN IF lower_half.raised # "none" THEN lower_half
          ELSE IF upper_half.raised # "none" THEN upper_half
          ELSE Ok(lower_half.value \o upper_half.value)
  ELSE _generate_keyword_based_ciphertext_alphabet(plaintext_alphabet, key)

_generate_case_handled_ciphertext_alphabet(plaintext_alphabet, key) ==
  IF plaintext_alphabet = ascii_letters
  THEN LET lower_half == _generate_keyword_based_ciphertext_alphabet(ascii_lowercase, lower(key))
           upper_half == _generate_keyword_based_ciphertext_alphabet(ascii_uppercase, upper(key))
       IN IF lower_half.raised # "none" THEN lower_half
          ELSE IF upper_half.raised # "none" THEN upper_half
          ELSE Ok(lower_half.value \o upper_half.value)
  ELSE _generate_keyword_based_ciphertext_alphabet(plaintext_alphabet, key)

_generate_inverse(plaintext_list_, ciphertext_list_) ==
  LET position == [i \in 1..Len(plaintext_list_) |->
                     index(ciphertext_list_, plaintext_list_[i])]
  IN IF \E i \in 1..Len(plaintext_list_) : position[i] = 0
     THEN Raise("ValueError")
     ELSE IF \E i \in 1..Len(plaintext_list_) : position[i] > Len(plaintext_list_)
     THEN Raise("IndexError")
     ELSE Ok([i \in 1..Len(plaintext_list_) |-> plaintext_list_[position[i]]])

_apply_mapping(message_str, source_list, destination_list) ==
  LET position(i) == index(source_list, message_str[i])
  IN IF \E i \in 1..Len(message_str) : position(i) > Len(destination_list)
     THEN Raise("IndexError")
     ELSE Ok([i \in 1..Len(message_str) |->
                IF position(i) = 0 THEN message_str[i]
                ELSE destination_list[position(i)]])

\* The shift that drops the sign of the amount.
shifted_alphabet_abs(alphabet_string, shift_amount) ==
  IF Len(alphabet_string) = 0
  THEN Raise("ZeroDivisionError")
  ELSE LET abs == IF shift_amount < 0 THEN -shift_amount ELSE shift_amount
           amount == abs % Len(alphabet_string)
       IN Ok(SubSeq(alphabet_string, amount + 1, Len(alphabet_string))
             \o SubSeq(alphabet_string, 1, amount))

_generate_shifted_alphabet(alphabet_string, shift_amount) ==
  IF Len(alphabet_string) = 0
  THEN Raise("ZeroDivisionError")
  ELSE LET amount == shift_amount % Len(alphabet_string)
       IN Ok(SubSeq(alphabet_string, amount + 1, Len(alphabet_string))
             \o SubSeq(alphabet_string, 1, amount))

(***************************************************************************)
(* Public classes and functions of Cipher.py.  A constructor yields the    *)
(* fields of the new object, or the exception it raises.                   *)
(***************************************************************************)
Object(pt, ct, inv) ==
  [raised |-> "none", plaintext_list |-> pt, ciphertext_list |-> ct,
   inverse_list |-> inv]

NoObject(kind) ==
  [raised |-> kind, plaintext_list |-> <<>>, ciphertext_list |-> <<>>,
   inverse_list |-> <<>>]

\* The constructor without the length test.
Cipher_no_length_check(ciphertext_alphabet, plaintext_alphabet) ==
  LET pt == IF plaintext_alphabet = None THEN ascii_letters ELSE plaintext_alphabet
      inv == _generate_inverse(pt, ciphertext_alphabet)
  IN IF Range(pt) # Range(ciphertext_alphabet) THEN NoObject("ValueError")
     ELSE IF inv.raised # "none" THEN NoObject(inv.raised)
     ELSE Object(pt, ciphertext_alphabet, inv.value)

Cipher(ciphertext_alphabet, plaintext_alphabet) ==
  LET pt == IF plaintext_alphabet = None THEN ascii_letters ELSE plaintext_alphabet
      inv == _generate_inverse(pt, ciphertext_alphabet)
  IN IF Len(pt) # Len(ciphertext_alphabet) THEN NoObject("ValueError")
     ELSE IF Range(pt) # Range(ciphertext_alphabet) THEN NoObject("ValueError")
     ELSE IF inv.raised # "none" THEN NoObject(inv.raised)
     ELSE Object(pt, ciphertext_alphabet, inv.value)

KeyedCipher(key, plaintext_alphabet) ==
  LET pt == IF plaintext_alphabet = None THEN PRINTABLE_ASCII_ALPHABET
            ELSE plaintext_alphabet
      ciphertext_alphabet == _generate_case_handled_ciphertext_alphabet(pt, key)
  IN IF Len(key) = 0 THEN NoObject("ValueError")
     ELSE IF ciphertext_alphabet.raised # "none"
     THEN NoObject(ciphertext_alphabet.raised)
     ELSE Cipher(ciphertext_alphabet.value, pt)

ShiftedCipher(shift_amount, plaintext_alphabet) ==
  LET pt == IF plaintext_alphabet = None THEN PRINTABLE_ASCII_ALPHABET
            ELSE plaintext_alphabet
      ciphertext_alphabet == _generate_shifted_alphabet(pt, shift_amount)
  IN IF ciphertext_alphabet.raised # "none"
     THEN NoObject(ciphertext_alphabet.raised)
     ELSE Cipher(ciphertext_alphabet.value, pt)

\* The combined builder whose key-first branch shifts the base alphabet.
combined_cipher_key_dropped(key, shift_amount, plaintext_alphabet, shift_first) ==
  LET pt == IF plaintext_alphabet = None THEN PRINTABLE_ASCII_ALPHABET
            ELSE plaintext_alphabet
      shifted == _generate_shifted_alphabet(pt, shift_amount)
      keyed == _generate_case_handled_ciphertext_alphabet(pt, key)
  IN IF shift_first
     THEN IF shifted.raised # "none" THEN NoObject(shifted.raised)
          ELSE KeyedCipher(key, shifted.value)
     ELSE IF keyed.raised # "none" THEN NoObject(keyed.raised)
          ELSE ShiftedCipher(shift_amount, pt)

\* The combined builder that tests the key before either branch.
combined_cipher_key_checked(key, shift_amount, plaintext_alphabet, shift_first) ==
  LET pt == IF plaintext_alphabet = None THEN PRINTABLE_ASCII_ALPHABET
            ELSE plaintext_alphabet
      shifted == _generate_shifted_alphabet(pt, shift_amount)
      keyed == _generate_case_handled_ciphertext_alphabet(pt, key)
  IN IF Len(key) = 0 THEN NoObject("ValueError")
     ELSE IF shift_first
     THEN IF shifted.raised # "none" THEN NoObject(shifted.raised)
          ELSE KeyedCipher(key, shifted.value)
     ELSE IF keyed.raised # "none" THEN NoObject(keyed.raised)
          ELSE ShiftedCipher(shift_amount, keyed.value)

get_combined_cipher(key, shift_amount, plaintext_alphabet, shift_first) ==
  LET pt == IF plaintext_alphabet = None THEN PRINTABLE_ASCII_ALPHABET
            ELSE plaintext_alphabet
      shifted == _generate_shifted_alphabet(pt, shift_amount)
      keyed == _generate_case_handled_ciphertext_alphabet(pt, key)
  IN IF shift_first
     THEN IF shifted.raised # "none" THEN NoObject(shifted.raised)
          ELSE KeyedCipher(key, shifted.value)
     ELSE IF keyed.raised # "none" THEN NoObject(keyed.raised)
          ELSE ShiftedCipher(shift_amount, keyed.value)

(***************************************************************************)
(* Inputs.                                                                 *)
(***************************************************************************)
\* 'a', 'b', 'c'
AlphabetChars == {97, 98, 99}

\* 'b', 'c', 'B'
KeyChars == {98, 99, 66}

\* 'a', 'b', '!'
MessageChars == {97, 98, 33}

\* "0123456789" and "5158414" of the docstring example.
digits == [i \in 1..10 |-> 47 + i]

ExampleKey == <<53, 49, 53, 56, 52, 49, 52>>

\* The shift amount of main.py.
ExampleShift == -42000

Alphabets == SeqsUpTo(AlphabetChars, MaxLen) \cup {ascii_letters, digits}

Keys == SeqsUpTo(KeyChars, MaxKeyLen) \cup {ExampleKey}

Messages == SeqsUpTo(MessageChars, MaxMsgLen)

Shifts == (-MaxShift..MaxShift) \cup {ExampleShift}

NoCall ==
  [op |-> "none", key |-> <<>>, shift_amount |-> 0, plaintext_alphabet |-> <<>>,
   ciphertext_alphabet |-> <<>>, shift_first |-> FALSE, message_string |-> <<>>]

\* The alphabet a builder works on when the argument is omitted.
BaseAlphabet == IF call.plaintext_alphabet = None THEN PRINTABLE_ASCII_ALPHABET
                ELSE call.plaintext_alphabet

(***************************************************************************)
(* Construction: the program starts with a plaintext alphabet in hand (or   *)
(* none, to take the default) and calls one constructor or one alphabet    *)
(* utility on it.                                                          *)
(***************************************************************************)
Init ==
  /\ pc = "start"
  /\ call \in {[NoCall EXCEPT !.plaintext_alphabet = pt] : pt \in Alphabets \cup {None}}
  /\ raised = "none"
  /\ plaintext_list = <<>>
  /\ ciphertext_list = <<>>
  /\ inverse_list = <<>>
  /\ result = <<>>
  /\ message = <<>>
  /\ encrypted = <<>>
  /\ decrypted = <<>>

Construct(obj) ==
  /\ pc' = IF obj.raised = "none" THEN "constructed" ELSE "failed"
  /\ raised' = obj.raised
  /\ plaintext_list' = obj.plaintext_list
  /\ ciphertext_list' = obj.ciphertext_list
  /\ inverse_list' = obj.inverse_list
  /\ UNCHANGED <<result, message, encrypted, decrypted>>

NewCipher ==
  \E ct \in Alphabets :
    /\ pc = "start"
    /\ call' = [call EXCEPT !.op = "Cipher", !.ciphertext_alphabet = ct]
    /\ Construct(Cipher(ct, call.plaintext_alphabet))

NewKeyedCipher ==
  \E key \in Keys :
    /\ pc = "start"
    /\ call' = [call EXCEPT !.op = "KeyedCipher", !.key = key]
    /\ Construct(KeyedCipher(key, call.plaintext_alphabet))

NewShiftedCipher ==
  \E shift_amount \in Shifts :
    /\ pc = "start"
    /\ call' = [call EXCEPT !.op = "ShiftedCipher", !.shift_amount = shift_amount]
    /\ Construct(ShiftedCipher(shift_amount, call.plaintext_alphabet))

GetCombinedCipher ==
  \E key \in Keys, shift_amount \in Shifts, shift_first \in BOOLEAN :
    /\ pc = "start"
    /\ call' = [call EXCEPT !.op = "get_combined_cipher", !.key = key,
                            !.shift_amount = shift_amount,
                            !.shift_first = shift_first]
    /\ Construct(get_combined_cipher(key, shift_amount, call.plaintext_alphabet,
                                     shift_first))

Return(r) ==
  /\ raised' = r.raised
  /\ result' = r.value
  /\ UNCHANGED <<plaintext_list, ciphertext_list, inverse_list,
                 message, encrypted, decrypted>>

\* A call of the shift utility on its own.
shift ==
  \E shift_amount \in Shifts :
    /\ pc = "start"
    /\ call.plaintext_alphabet # None
    /\ pc' = "shifted"
    /\ call' = [call EXCEPT !.op = "shift", !.shift_amount = shift_amount]
    /\ Return(_generate_shifted_alphabet(call.plaintext_alphabet, shift_amount))

\* The shift of the previous result by the opposite amount.
shift_back ==
  /\ pc = "shifted"
  /\ raised = "none"
  /\ pc' = "done"
  /\ call' = [call EXCEPT !.op = "shift_back"]
  /\ Return(_generate_shifted_alphabet(result, -call.shift_amount))

\* A call of the keyword reordering on its own.
reorder_by_key ==
  \E key \in Keys :
    /\ pc = "start"
    /\ call.plaintext_alphabet # None
    /\ pc' = "done"
    /\ call' = [call EXCEPT !.op = "reorder_by_key", !.key = key]
    /\ Return(_generate_keyword_based_ciphertext_alphabet(call.plaintext_alphabet, key))

Next ==
  \/ NewCipher
  \/ NewKeyedCipher
  \/ NewShiftedCipher
  \/ GetCombinedCipher
  \/ shift
  \/ shift_back
  \/ reorder_by_key

Spec == Init /\ [][Next]_vars

(***************************************************************************)
(* Use: the program holds a cipher that one of the constructors returned   *)
(* and calls its methods, or hands it to main.generate_files.              *)
(***************************************************************************)
\* The ciphers that the constructor calls of the inputs return.
Constructed(obj) ==
  /\ obj.raised = "none"
  /\ pc = "constructed"
  /\ call = NoCall
  /\ raised = "none"
  /\ plaintext_list = obj.plaintext_list
  /\ ciphertext_list = obj.ciphertext_list
  /\ inverse_list = obj.inverse_list
  /\ result = <<>>
  /\ message = <<>>
  /\ encrypted = <<>>
  /\ decrypted = <<>>

InitConstructed ==
  \E pt \in Alphabets \cup {None} :
    \/ \E ct \in Alphabets : Constructed(Cipher(ct, pt))
    \/ \E key \in Keys : Constructed(KeyedCipher(key, pt))
    \/ \E shift_amount \in Shifts : Constructed(ShiftedCipher(shift_amount, pt))
    \/ \E key \in Keys, shift_amount \in Shifts, shift_first \in BOOLEAN :
         Constructed(get_combined_cipher(key, shift_amount, pt, shift_first))

encrypt ==
  \E message_string \in Messages :
    /\ pc = "constructed"
    /\ pc' = "done"
    /\ call' = [NoCall EXCEPT !.op = "encrypt", !.message_string = message_string]
    /\ Return(_apply_mapping(message_string, plaintext_list, ciphertext_list))

decrypt ==
  \E message_string \in Messages :
    /\ pc = "constructed"
    /\ pc' = "done"
    /\ call' = [NoCall EXCEPT !.op = "decrypt", !.message_string = message_string]
    /\ Return(_apply_mapping(message_string, plaintext_list, inverse_list))

\* main.generate_files: encrypt the message read, decrypt the encryption and
\* assert that the message is back.
generate_files ==
  \E text \in Messages :
    LET enc == _apply_mapping(text, plaintext_list, ciphertext_list)
        dec == _apply_mapping(enc.value, plaintext_list, inverse_list)
    IN /\ pc = "constructed"
       /\ pc' = "done"
       /\ call' = [NoCall EXCEPT !.op = "generate_files"]
       /\ message' = text
       /\ encrypted' = enc.value
       /\ decrypted' = IF enc.raised = "none" THEN dec.value ELSE <<>>
       /\ raised' = IF enc.raised # "none" THEN enc.raised
                    ELSE IF dec.raised # "none" THEN dec.raised
                    ELSE IF text # dec.value THEN "AssertionError"
                    ELSE "none"
       /\ UNCHANGED <<plaintext_list, ciphertext_list, inverse_list, result>>

NextCipher ==
  \/ encrypt
  \/ decrypt
  \/ generate_files

CipherSpec == InitConstructed /\ [][NextCipher]_vars

(***************************************************************************)
(* Vocabulary of the properties, stated without the functions above.       *)
(***************************************************************************)
Distinct(s) == \A i, j \in 1..Len(s) : i # j => s[i] # s[j]

Count(s, c) == Cardinality({i \in 1..Len(s) : s[i] = c})

IsPermutation(s, t) ==
  /\ Len(s) = Len(t)
  /\ \A c \in Range(s) \cup Range(t) : Count(s, c) = Count(t, c)

\* A rotated left by k places, modulo its length.
RotateLeft(A, k) == [i \in 1..Len(A) |-> A[((i - 1 + k) % Len(A)) + 1]]

\* "5184023679"
ExampleReordered == <<53, 49, 56, 52, 48, 50, 51, 54, 55, 57>>

\* The plaintext alphabet of a direct Cipher(...) call.
CipherPlaintext == IF call.plaintext_alphabet = None THEN ascii_letters
                   ELSE call.plaintext_alphabet

\* C1: after generate_files on any accepted cipher and any message, the
\* decryption of the encryption is the message (and its assertion passes).
C1_RoundTrip ==
  call.op = "generate_files" => (decrypted = message /\ raised = "none")

\* C2: Cipher(ciphertext, plaintext) raises ValueError when the lengths
\* differ, raises ValueError when the character sets differ, and succeeds,
\* holding the two alphabets, when the ciphertext alphabet is a permutation
\* of the plaintext alphabet.
C2_ConstructionContract ==
  call.op = "Cipher" =>
    LET pt == CipherPlaintext
        ct == call.ciphertext_alphabet
    IN /\ Len(pt) # Len(ct) => (pc = "failed" /\ raised = "ValueError")
       /\ Range(pt) # Range(ct) => (pc = "failed" /\ raised = "ValueError")
       /\ IsPermutation(ct, pt) =>
            /\ pc = "constructed"
            /\ raised = "none"
            /\ plaintext_list = pt
            /\ ciphertext_list = ct

C2_Witness ==
  /\ call.op = "Cipher"
  /\ pc = "constructed"
  /\ Len(plaintext_list) = 3
  /\ Distinct(plaintext_list)
  /\ \A i \in 1..3 : ciphertext_list[i] # plaintext_list[i]

\* C3: every constructed cipher has no repeated character in its plaintext
\* alphabet nor in its ciphertext alphabet.
C3_NoDuplicates ==
  pc = "constructed" => (Distinct(plaintext_list) /\ Distinct(ciphertext_list))

\* The key-reordered base alphabet of a get_combined_cipher call.
KeyedBase == _generate_case_handled_ciphertext_alphabet(BaseAlphabet, call.key).value

\* C4 as stated: with shift_first false the returned cipher has the base
\* alphabet as plaintext and the rotated key-reordered alphabet as ciphertext.
C4_Original ==
  (call.op = "get_combined_cipher" /\ ~call.shift_first /\ pc = "constructed") =>
    /\ plaintext_list = BaseAlphabet
    /\ ciphertext_list = RotateLeft(KeyedBase, call.shift_amount)

\* C4 amended: with shift_first false the returned cipher has the
\* key-reordered base alphabet as plaintext, and that alphabet rotated left by
\* the shift amount as ciphertext.
C4_KeyThenShift ==
  (call.op = "get_combined_cipher" /\ ~call.shift_first /\ pc = "constructed") =>
    /\ plaintext_list = KeyedBase
    /\ ciphertext_list = RotateLeft(KeyedBase, call.shift_amount)

C4_Witness ==
  /\ call.op = "get_combined_cipher"
  /\ ~call.shift_first
  /\ pc = "constructed"
  /\ Len(call.key) > 0
  /\ plaintext_list # BaseAlphabet
  /\ ciphertext_list # plaintext_list

\* C5: encrypt and decrypt never raise and return a text of the same length,
\* where a character outside the plaintext alphabet is unchanged and a
\* character at plaintext index p is replaced by ciphertext[p] (encrypt) or
\* inverse[p] (decrypt).
C5_MappingContract ==
  call.op \in {"encrypt", "decrypt"} =>
    LET text == call.message_string
        destination == IF call.op = "encrypt" THEN ciphertext_list ELSE inverse_list
    IN /\ raised = "none"
       /\ Len(result) = Len(text)
       /\ \A i \in 1..Len(text) :
            /\ text[i] \notin Range(plaintext_list) => result[i] = text[i]
            /\ \A p \in 1..Len(plaintext_list) :
                 plaintext_list[p] = text[i] => result[i] = destination[p]

\* C6: on a duplicate-free alphabet the reordering raises ValueError exactly
\* when a key character is not in the alphabet; otherwise the result is the
\* distinct key characters in order of first occurrence, then the other
\* characters of the alphabet in their order, a permutation of the alphabet;
\* "0123456789" with key "5158414" gives "5184023679".
C6_ReorderContract ==
  (call.op = "reorder_by_key" /\ Distinct(call.plaintext_alphabet)) =>
    LET A == call.plaintext_alphabet
        key == call.key
        absent == \E i \in 1..Len(key) : key[i] \notin Range(A)
        n == Cardinality(Range(key))
        NotInKey(c) == c \notin Range(key)
    IN /\ absent <=> raised = "ValueError"
       /\ ~absent =>
            /\ raised = "none"
            /\ Len(result) = Len(A)
            /\ IsPermutation(result, A)
            /\ Range(SubSeq(result, 1, n)) = Range(key)
            /\ \A p, q \in 1..n :
                 p < q => \E i \in 1..Len(key) :
                            /\ key[i] = result[p]
                            /\ \A j \in 1..i : key[j] # result[q]
            /\ SubSeq(result, n + 1, Len(A)) = SelectSeq(A, NotInKey)
       /\ (A = digits /\ key = ExampleKey) => result = ExampleReordered

C6_Witness ==
  /\ call.op = "reorder_by_key"
  /\ call.plaintext_alphabet = digits
  /\ call.key = ExampleKey
  /\ raised = "none"
  /\ result = ExampleReordered

\* The ciphertext alphabet C7 names for the call in `call'.
KeyedExpected ==
  IF BaseAlphabet = ascii_letters
  THEN LET lower_half == _generate_keyword_based_ciphertext_alphabet(
                           ascii_lowercase, lower(call.key))
           upper_half == _generate_keyword_based_ciphertext_alphabet(
                           ascii_uppercase, upper(call.key))
       IN IF lower_half.raised # "none" \/ upper_half.raised # "none"
          THEN Raise("ValueError")
          ELSE Ok(lower_half.value \o upper_half.value)
  ELSE _generate_keyword_based_ciphertext_alphabet(BaseAlphabet, call.key)

\* C7: KeyedCipher with a non-empty key on the 52 letters (lowercase then
\* uppercase) has as ciphertext alphabet the reordering of the lowercase
\* letters by the lowercased key followed by the reordering of the uppercase
\* letters by the uppercased key; on any other alphabet it is the reordering
\* of the alphabet by the key as given.
C7_KeyedContract ==
  (call.op = "KeyedCipher" /\ Len(call.key) > 0) =>
    IF KeyedExpected.raised = "none"
    THEN /\ pc = "constructed"
         /\ plaintext_list = BaseAlphabet
         /\ ciphertext_list = KeyedExpected.value
    ELSE pc = "failed" /\ raised = "ValueError"

\* key "Bc" on the 52 letters: "bcad..." then "BCAD...".
C7_Witness ==
  /\ call.op = "KeyedCipher"
  /\ call.plaintext_alphabet = ascii_letters
  /\ call.key = <<66, 99>>
  /\ pc = "constructed"
  /\ SubSeq(ciphertext_list, 1, 3) = <<98, 99, 97>>
  /\ SubSeq(ciphertext_list, 27, 29) = <<66, 67, 65>>

\* C8: the shift of a non-empty alphabet A by k is A rotated left by k modulo
\* its length, and shifting the result by -k gives A back.
C8_ShiftRoundTrip ==
  /\ (call.op = "shift" /\ Len(call.plaintext_alphabet) > 0) =>
       /\ raised = "none"
       /\ result = RotateLeft(call.plaintext_alphabet, call.shift_amount)
  /\ call.op = "shift_back" =>
       /\ raised = "none"
       /\ result = call.plaintext_alphabet

C8_Witness ==
  /\ call.op = "shift_back"
  /\ call.shift_amount = -2
  /\ Len(call.plaintext_alphabet) = 3
  /\ Distinct(call.plaintext_alphabet)
  /\ result = call.plaintext_alphabet

\* C9: a length mismatch, a set mismatch, an empty key given to KeyedCipher, a
\* key character absent from the alphabet and a zero-length alphabet passed
\* to the shift are all reported as ValueError.
C9_SingleErrorKind ==
  /\ (call.op = "Cipher" /\ Len(CipherPlaintext) # Len(call.ciphertext_alphabet)) =>
       raised = "ValueError"
  /\ (call.op = "Cipher" /\ Range(CipherPlaintext) # Range(call.ciphertext_alphabet)) =>
       raised = "ValueError"
  /\ (call.op = "KeyedCipher" /\ Len(call.key) = 0) => raised = "ValueError"
  /\ (/\ call.op = "reorder_by_key"
      /\ \E i \in 1..Len(call.key) : call.key[i] \notin Range(call.plaintext_alphabet)) =>
       raised = "ValueError"
  /\ (call.op \in {"shift", "ShiftedCipher"} /\ Len(BaseAlphabet) = 0) =>
       raised = "ValueError"

\* C10: get_combined_cipher with an empty key fails when shift_first is true;
\* when shift_first is false the key is not rejected, and on a non-empty base
\* alphabet the result is the pure shift cipher: the base alphabet as
\* plaintext and the base alphabet rotated left by the shift amount as
\* ciphertext.
C10_EmptyKeyCombined ==
  (call.op = "get_combined_cipher" /\ Len(call.key) = 0) =>
    /\ call.shift_first => (pc = "failed" /\ raised # "none")
    /\ ~call.shift_first => raised # "ValueError"
    /\ (~call.shift_first /\ Len(BaseAlphabet) > 0) =>
         /\ pc = "constructed"
         /\ plaintext_list = BaseAlphabet
         /\ ciphertext_list = RotateLeft(BaseAlphabet, call.shift_amount)

C10_Witness ==
  /\ call.op = "get_combined_cipher"
  /\ Len(call.key) = 0
  /\ ~call.shift_first
  /\ pc = "constructed"
  /\ Len(plaintext_list) = 3
  /\ Distinct(plaintext_list)
  /\ ciphertext_list # plaintext_list

====
